---- MODULE Spec2Model ----
(***************************************************************************)
(* Convolutional sequence-to-sequence model (Encoder, Decoder, Seq2Seq)    *)
(* and its training loop, from                                             *)
(* "NLP Challenges/5 - Convolutional Sequence to Sequence Learning.ipynb". *)
(*                                                                         *)
(* Two state machines share this module:                                   *)
(*   SpecForward  construction of the Encoder and the Decoder and one call *)
(*                of Seq2Seq.forward, block by block;                      *)
(*   SpecTrain    the epoch loop (train, evaluate, checkpoint) and the     *)
(*                final evaluation cell.                                   *)
(*                                                                         *)
(* Tensors are modelled by provenance.  The batch axis is dropped (every   *)
(* operation of the model acts on each batch element alone).  A tensor is  *)
(* a record [dim |-> channel width, v |-> sequence over the length axis];  *)
(* the entry at a position is the set of atoms the number stored there is  *)
(* computed from: input tokens <<"src"|"trg", position, token>>, position  *)
(* indices <<"pos", position, 0>>, parameters <<layer name, block, 0>> and *)
(* dropout masks <<"...dropout", call site, position>>.  Two entries with  *)
(* the same atoms are the same function of the same arguments, hence the   *)
(* same number, whatever the parameter values are.                         *)
(***************************************************************************)
EXTENDS Integers, Sequences, FiniteSets, TLC

\* ---------------------------------------------------------------- bounds
MaxKernel == 3      \* kernel sizes 1..MaxKernel
MaxLayers == 2      \* numbers of convolutional blocks 0..MaxLayers
MaxSrcLen == 2      \* source lengths 1..MaxSrcLen
MaxTrgLen == 2      \* lengths of the target fed to the decoder 1..MaxTrgLen
N_EPOCHS == 3       \* epochs of the training loop (10 in the notebook); the
                    \* loop is also run with zero epochs
NBatches == 2       \* len(iterator): batches an iterator yields per pass
MaxLoss == 2        \* finite losses 0..MaxLoss, besides inf and nan
MaxEnergy == 2      \* attention energies 0..MaxEnergy
MaxBatch == 2       \* sequences per batch 1..MaxBatch

\* ------------------------------------------------------ program constants
EMB_DIM == 128
HID_DIM == 64
TRG_PAD_IDX == 1
MAX_LENGTH == 100   \* max_length = 100, the default of Encoder and Decoder
UNK_IDX == 0        \* TRG.vocab.stoi: <unk>, <pad>, <sos>, <eos>, then the words
SOS_IDX == 2
EOS_IDX == 3
WORD_IDX == 4

SrcVocab == {0}
TrgVocab == {0, TRG_PAD_IDX}
OUTPUT_DIM == Cardinality(TrgVocab)
Runs == {"A", "B"}
MaxLengths == {1, MAX_LENGTH}    \* max_length: a table of one row, the default

VARIABLES
    \* ---- the model objects
    enc,        \* the Encoder: [status, kernel_size, n_layers, padding]
    dec,        \* the Decoder: [status, kernel_size, n_layers, trg_pad_idx]
    training,   \* nn.Module.training of the model (dropout active iff TRUE)
    \* ---- one call of Seq2Seq.forward
    pc,         \* position in the cell / in forward
    err,        \* the exception that ended the run, "" if none
    calls,      \* sub-modules invoked by Seq2Seq.forward, in order
    src,        \* source token sequence
    trg,        \* target token sequence fed to the decoder, one per run:
                \* run "A" is the call, run "B" a second evaluation of
                \* Decoder.forward on another target with the same encoder
                \* outputs and parameters, carried alongside to compare
                \* the two
    e,          \* locals of Encoder.forward
    d,          \* locals of Decoder.forward, per run
    ret,        \* what Seq2Seq.forward returned, per run
    \* ---- the training loop and the final evaluation cell
    n_epochs,         \* the value of N_EPOCHS in "for epoch in range(N_EPOCHS)"
    epoch,            \* loop variable of "for epoch in range(N_EPOCHS)"
    iterator,         \* the iterator argument of the running train/evaluate
    ip,               \* [k, batch]: statement and batch index inside it
    loc,              \* locals of the running train/evaluate: [output: the
                      \* logits of the last forward pass, loss: the batches
                      \* the loss was computed from], {} while unbound
    params,           \* model.state_dict(): the number of the optimizer step
                      \* that produced it (0: as constructed, -1: not from this run)
    grads,            \* .grad of the parameters: [from: batches summed, clipped]
    optSteps,         \* optimizer state: updates Adam has made
    ckpt,             \* the file tut5-model.pt: [exists, params]
    best_valid_loss,
    valid_loss,
    hist,             \* history: per finished epoch [loss, params, saved, best]
    loads,            \* history: number of model.load_state_dict calls
    validation,       \* the loss of the model over valid_iterator: [loss: with
                      \* the parameters this epoch's train() left, best: lowest
                      \* of the finished epochs, params: the parameters of the
                      \* earliest epoch that reached best]
    \* ---- single computations on numbers and tokens
    sm,         \* F.softmax in calculate_attention: [energy, attention],
                \* matrices of numbers
    it          \* one iteration of the batch loop of train/evaluate:
                \* [fn, trg, fed, output, expected, loss]

fwdVars == <<enc, dec, calls, src, trg, e, d, ret>>
trainVars == <<n_epochs, epoch, iterator, ip, loc, params, grads, optSteps, ckpt,
               best_valid_loss, valid_loss, hist, loads, validation>>
vars == <<enc, dec, training, pc, err, calls, src, trg, e, d, ret,
          n_epochs, epoch, iterator, ip, loc, params, grads, optSteps, ckpt,
          best_valid_loss, valid_loss, hist, loads, validation, sm, it>>
fnVars == <<sm, it>>

\* ------------------------------------------------------------- tensors
Atom(kind, a, b) == <<kind, a, b>>
NoTensor == [dim |-> 0, v |-> <<>>]
Tensor(dm, s) == [dim |-> dm, v |-> s]
SeqsUpTo(S, n) == UNION {[1..m -> S] : m \in 1..n}

\* nn.Embedding lookup of a token sequence: entry j is row toks[j] of the table
Embedding(name, side, toks) ==
    Tensor(EMB_DIM, [j \in 1..Len(toks) |-> {Atom(side, j - 1, toks[j]), Atom(name, 0, 0)}])

\* torch.arange(0, len) looked up in the position table
PosEmbedding(name, len) ==
    Tensor(EMB_DIM, [j \in 1..len |-> {Atom("pos", j - 1, 0), Atom(name, 0, 0)}])

\* nn.Embedding(max_length, emb_dim) has rows 0..max_length-1: the lookup of
\* torch.arange(0, len) raises IndexError unless every index is a row
PosLookupUnchecked(len, max_length) == TRUE
PosLookupOK(len, max_length) == \A p \in 0..(len - 1) : p < max_length

\* elementwise sum of two tensors of the same shape (times self.scale, a constant)
SameShape(x, y) == x.dim = y.dim /\ Len(x.v) = Len(y.v)
Add(x, y) == Tensor(x.dim, [j \in 1..Len(x.v) |-> x.v[j] \cup y.v[j]])

\* nn.Dropout: the identity in evaluation mode, an independent random mask
\* per entry and per call in training mode
Dropout(x, name, site) ==
    IF training
    THEN Tensor(x.dim, [j \in 1..Len(x.v) |-> x.v[j] \cup {Atom(name, site, j - 1)}])
    ELSE x

\* nn.Linear over the channel axis, position by position
Linear(name, x, out) ==
    Tensor(out, [j \in 1..Len(x.v) |-> x.v[j] \cup {Atom(name, 0, 0)}])

\* F.glu over the channel axis: first half times sigmoid of second half
Glu(x) == Tensor(x.dim \div 2, x.v)

\* nn.Conv1d(kernel_size = k, padding = p): zero padding of p on both ends,
\* output position j reads padded positions j .. j+k-1.  An input shorter
\* than the kernel after padding raises; the result then has no positions.
ConvLen(len, k, p) == len + 2 * p - k + 1
Conv1d(name, l, x, out, k, p) ==
    LET zeros == [j \in 1..p |-> {}]
        padded == zeros \o x.v \o zeros
        n == ConvLen(Len(x.v), k, p)
    IN  Tensor(out, [j \in 1..(IF n < 1 THEN 0 ELSE n) |->
                        (UNION {padded[j + t] : t \in 0..(k - 1)}) \cup {Atom(name, l, 0)}])

\* ------------------------------------------------------------- Encoder
\* assert kernel_size % 2 == 1, "Kernel size must be odd!"
EncKernelUnchecked(k) == k >= 1
EncKernelOK(k) == k % 2 = 1

\* padding = (kernel_size - 1) // 2 of every nn.Conv1d of the encoder
EncPaddingFull(k) == k - 1
EncPadding(k) == (k - 1) \div 2

\* embedded = self.dropout(tok_embedded + pos_embedded)
EncEmbedded(s) ==
    Dropout(Add(Embedding("enc.tok_embedding", "src", s),
                PosEmbedding("enc.pos_embedding", Len(s))),
            "enc.dropout", 0)

\* one convolutional block of the encoder, before its residual connection:
\* F.glu(conv(self.dropout(conv_input)), dim = 1)
EncConved(conv_input, i) ==
    Glu(Conv1d("enc.convs", i, Dropout(conv_input, "enc.dropout", i + 1),
               2 * HID_DIM, enc.kernel_size, enc.padding))

\* ------------------------------------------------------------- Decoder
\* padding = torch.zeros(batch, hid, kernel_size - 1).fill_(trg_pad_idx);
\* padded_conv_input = torch.cat((padding, conv_input), dim = 2)
DecPadLenHalf(k) == (k - 1) \div 2
DecPadLen(k) == k - 1
CausalPadTail(x, k) == Tensor(x.dim, x.v \o [j \in 1..DecPadLen(k) |-> {}])
CausalPad(x, k) == Tensor(x.dim, [j \in 1..DecPadLen(k) |-> {}] \o x.v)

\* tok_embedded + pos_embedded
DecTokPos(t) ==
    Add(Embedding("dec.tok_embedding", "trg", t), PosEmbedding("dec.pos_embedding", Len(t)))

\* embedded = self.dropout(tok_embedded + pos_embedded)
DecEmbedded(t, r) == Dropout(DecTokPos(t), "dec.dropout." \o r, 0)

\* torch.matmul(combined, encoder_conved.permute(0, 2, 1)): a
\* (target length) x (source length) matrix
Energy(combined, encoder_conved) ==
    [j \in 1..Len(combined.v) |->
        [s \in 1..Len(encoder_conved.v) |-> combined.v[j] \cup encoder_conved.v[s]]]

\* F.softmax(energy, dim = 2): each row is normalised over the source axis
Softmax(energy) ==
    [j \in 1..Len(energy) |->
        LET row == UNION {energy[j][s2] : s2 \in 1..Len(energy[j])}
        IN  [s \in 1..Len(energy[j]) |-> row]]

\* torch.matmul(attention, encoder_combined)
Attend(attention, encoder_combined) ==
    Tensor(encoder_combined.dim,
           [j \in 1..Len(attention) |->
               UNION {attention[j][s] \cup encoder_combined.v[s] : s \in 1..Len(attention[j])}])

\* Decoder.calculate_attention
AttnCombined(embedded, conved) ==
    Add(Linear("dec.attn_hid2emb", conved, EMB_DIM), embedded)
AttnShapeOK(embedded, conved, encoder_conved, encoder_combined) ==
    /\ SameShape(Linear("dec.attn_hid2emb", conved, EMB_DIM), embedded)
    /\ AttnCombined(embedded, conved).dim = encoder_conved.dim
    /\ Len(encoder_conved.v) = Len(encoder_combined.v)
calculate_attention(embedded, conved, encoder_conved, encoder_combined) ==
    LET attention == Softmax(Energy(AttnCombined(embedded, conved), encoder_conved))
        attended_encoding ==
            Linear("dec.attn_emb2hid", Attend(attention, encoder_combined), HID_DIM)
    IN  [attention |-> attention, conved |-> Add(conved, attended_encoding)]

\* one block of the decoder up to the GLU:
\* F.glu(conv(cat(padding, conv_input)), dim = 1), conv_input after dropout
DecConved(dropped, i) ==
    Glu(Conv1d("dec.convs", i, CausalPad(dropped, dec.kernel_size),
               2 * HID_DIM, dec.kernel_size, 0))

\* ------------------------------------------------------ SpecForward: Init
NoEncLocals == [embedded |-> NoTensor, conv_input |-> NoTensor,
                conved |-> NoTensor, combined |-> NoTensor, i |-> 0]
NoDecLocals == [embedded |-> NoTensor, conv_input |-> NoTensor, conved |-> NoTensor,
                attention |-> <<>>, attn_embedded |-> NoTensor, output |-> NoTensor,
                i |-> 0]
NoRet == [output |-> NoTensor, attention |-> <<>>]

\* the names the body of "for i, conv in enumerate(self.convs)" assigns (conved,
\* and attention in the decoder) are bound once the body has run; the variant
\* takes them as bound before the loop
AssignedBeforeLoop(l) == TRUE
Assigned(l) == l.i >= 1

\* the training loop has not started
TrainIdle ==
    /\ n_epochs = 0
    /\ epoch = 0
    /\ iterator = ""
    /\ ip = [k |-> 0, batch |-> 0]
    /\ loc = [output |-> {}, loss |-> {}]
    /\ params = 0
    /\ grads = [from |-> {}, clipped |-> FALSE]
    /\ optSteps = 0
    /\ ckpt = [exists |-> FALSE, params |-> 0]
    /\ best_valid_loss = [kind |-> "inf", val |-> 0]
    /\ valid_loss = [kind |-> "nan", val |-> 0]
    /\ hist = <<>>
    /\ loads = 0
    /\ validation = [loss |-> [kind |-> "nan", val |-> 0],
                     best |-> [kind |-> "inf", val |-> 0], params |-> 0]

\* no single computation has been made
NoIteration == [fn |-> "", trg |-> <<>>, fed |-> <<>>, output |-> <<>>,
                expected |-> <<>>, loss |-> [terms |-> {}, n |-> 0]]
FnIdle ==
    /\ sm = [energy |-> <<>>, attention |-> <<>>]
    /\ it = NoIteration

InitForward ==
    /\ TrainIdle
    /\ FnIdle
    /\ enc = [status |-> "none", kernel_size |-> 0, n_layers |-> 0, padding |-> 0,
              max_length |-> 0]
    /\ dec = [status |-> "none", kernel_size |-> 0, n_layers |-> 0, trg_pad_idx |-> 0,
              max_length |-> 0]
    /\ training = TRUE
    /\ pc = "new_encoder"
    /\ err = ""
    /\ calls = <<>>
    /\ src = <<>>
    /\ trg = [r \in Runs |-> <<>>]
    /\ e = NoEncLocals
    /\ d = [r \in Runs |-> NoDecLocals]
    /\ ret = [r \in Runs |-> NoRet]

Raise(what) == pc' = "error" /\ err' = what

\* ------------------------------------------------- construction of the model
\* enc = Encoder(INPUT_DIM, EMB_DIM, HID_DIM, ENC_LAYERS, ENC_KERNEL_SIZE, ...)
EncoderInit ==
    /\ pc = "new_encoder"
    /\ \E k \in 1..MaxKernel, n \in 0..MaxLayers, m \in MaxLengths :
        IF EncKernelOK(k)
        THEN /\ enc' = [status |-> "built", kernel_size |-> k, n_layers |-> n,
                        padding |-> EncPadding(k), max_length |-> m]
             /\ pc' = "new_decoder"
             /\ err' = err
        ELSE /\ enc' = [status |-> "failed", kernel_size |-> k, n_layers |-> n,
                        padding |-> 0, max_length |-> 0]
             /\ Raise("AssertionError")
    /\ UNCHANGED <<dec, training, calls, src, trg, e, d, ret, trainVars, fnVars>>

\* dec = Decoder(OUTPUT_DIM, EMB_DIM, HID_DIM, DEC_LAYERS, DEC_KERNEL_SIZE, ...)
DecoderInit ==
    /\ pc = "new_decoder"
    /\ \E k \in 1..MaxKernel, n \in 0..MaxLayers, m \in MaxLengths :
        dec' = [status |-> "built", kernel_size |-> k, n_layers |-> n,
                trg_pad_idx |-> TRG_PAD_IDX, max_length |-> m]
    /\ pc' = "new_seq2seq"
    /\ UNCHANGED <<enc, training, err, calls, src, trg, e, d, ret, trainVars, fnVars>>

\* model = Seq2Seq(enc, dec); the mode forward later runs in is the one the
\* last model.train() or model.eval() left (a new module is in training mode)
Seq2SeqInit ==
    /\ pc = "new_seq2seq"
    /\ \E m \in BOOLEAN : training' = m
    /\ pc' = "call"
    /\ UNCHANGED <<enc, dec, err, calls, src, trg, e, d, ret, trainVars, fnVars>>

\* ------------------------------------------------------- Seq2Seq.forward
\* model(src, trg): the arguments of the call
Seq2SeqForward ==
    /\ pc = "call"
    /\ \E s \in SeqsUpTo(SrcVocab, MaxSrcLen), t \in SeqsUpTo(TrgVocab, MaxTrgLen) :
        /\ src' = s
        /\ trg' = [r \in Runs |-> t]
    /\ pc' = "s2s_encoder"
    /\ UNCHANGED <<enc, dec, training, err, calls, e, d, ret, trainVars, fnVars>>

\* encoder_conved, encoder_combined = self.encoder(src)
Seq2SeqCallEncoder ==
    /\ pc = "s2s_encoder"
    /\ calls' = Append(calls, "encoder")
    /\ pc' = "enc_embed"
    /\ UNCHANGED <<enc, dec, training, err, src, trg, e, d, ret, trainVars, fnVars>>

\* output, attention = self.decoder(trg, encoder_conved, encoder_combined).
\* With dropout off a second target of the same length is chosen for run "B";
\* with dropout on the two runs draw different masks and run "B" keeps the
\* target of the call.
Seq2SeqCallDecoder ==
    /\ pc = "s2s_decoder"
    /\ calls' = Append(calls, "decoder")
    /\ \E tb \in [1..Len(trg["A"]) -> TrgVocab] :
        /\ training => tb = trg["A"]
        /\ trg' = [trg EXCEPT !["B"] = tb]
    /\ pc' = "dec_embed"
    /\ UNCHANGED <<enc, dec, training, err, src, e, d, ret, trainVars, fnVars>>

\* where Seq2Seq.forward goes when the decoder has returned
Seq2SeqDecodeAgain == "s2s_decoder"
Seq2SeqAfterDecoder == "s2s_return"

\* return output, attention
Seq2SeqReturn ==
    /\ pc = "s2s_return"
    /\ ret' = [r \in Runs |-> [output |-> d[r].output, attention |-> d[r].attention]]
    /\ pc' = "done"
    /\ UNCHANGED <<enc, dec, training, err, calls, src, trg, e, d, trainVars, fnVars>>

\* ------------------------------------------------------- Encoder.forward
\* embeddings, dropout, emb2hid
EncEmbed ==
    /\ pc = "enc_embed"
    /\ IF PosLookupOK(Len(src), enc.max_length)
       THEN /\ e' = [NoEncLocals EXCEPT
                        !.embedded = EncEmbedded(src),
                        !.conv_input = Linear("enc.emb2hid", EncEmbedded(src), HID_DIM)]
            /\ pc' = "enc_blocks"
            /\ err' = err
       ELSE Raise("IndexError: enc pos_embedding") /\ e' = e
    /\ UNCHANGED <<enc, dec, training, calls, src, trg, d, ret, trainVars, fnVars>>

\* one iteration of "for i, conv in enumerate(self.convs)"
EncBlock ==
    /\ pc = "enc_blocks"
    /\ e.i < enc.n_layers
    /\ LET conved == EncConved(e.conv_input, e.i)
           out == Add(conved, e.conv_input)
       IN
        IF Len(conved.v) = 0
        THEN Raise("RuntimeError: enc conv") /\ e' = e
        ELSE IF ~SameShape(conved, e.conv_input)
        THEN Raise("RuntimeError: enc shape") /\ e' = [e EXCEPT !.conved = conved]
        ELSE /\ e' = [e EXCEPT !.conved = out, !.conv_input = out, !.i = e.i + 1]
             /\ UNCHANGED <<pc, err>>
    /\ UNCHANGED <<enc, dec, training, calls, src, trg, d, ret, trainVars, fnVars>>

\* after the loop: hid2emb, combined, return
EncReturn ==
    /\ pc = "enc_blocks"
    /\ e.i = enc.n_layers
    /\ IF ~Assigned(e)
       THEN Raise("UnboundLocalError: enc conved") /\ e' = e
       ELSE LET conved == Linear("enc.hid2emb", e.conved, EMB_DIM) IN
            IF ~SameShape(conved, e.embedded)
            THEN Raise("RuntimeError: enc shape") /\ e' = [e EXCEPT !.conved = conved]
            ELSE /\ e' = [e EXCEPT !.conved = conved,
                                   !.combined = Add(conved, e.embedded)]
                 /\ pc' = "s2s_decoder"
                 /\ err' = err
    /\ UNCHANGED <<enc, dec, training, calls, src, trg, d, ret, trainVars, fnVars>>

\* ------------------------------------------------------- Decoder.forward
\* embeddings, dropout, emb2hid
DecEmbedStep(t, r) ==
    [NoDecLocals EXCEPT
        !.embedded = DecEmbedded(t, r),
        !.conv_input = Linear("dec.emb2hid", DecEmbedded(t, r), HID_DIM)]

DecEmbed ==
    /\ pc = "dec_embed"
    /\ IF PosLookupOK(Len(trg["A"]), dec.max_length)
       THEN /\ d' = [r \in Runs |-> DecEmbedStep(trg[r], r)]
            /\ pc' = "dec_blocks"
            /\ err' = err
       ELSE Raise("IndexError: dec pos_embedding") /\ d' = d
    /\ UNCHANGED <<enc, dec, training, calls, src, trg, e, ret, trainVars, fnVars>>

\* attention, conved = self.calculate_attention(...): the attention local after
\* the call of a block, given the locals l before it and the result att
AttentionOfFirstBlock(l, att) == IF l.i = 0 THEN att.attention ELSE l.attention
AttentionAssigned(l, att) == att.attention

\* the first argument of self.calculate_attention(embedded, conved, ...) in
\* the block loop, with the locals l of run r
AttnEmbeddedNoDropout(l, r) == DecTokPos(trg[r])
AttnEmbedded(l, r) == l.embedded

\* one iteration of "for i, conv in enumerate(self.convs)" on the locals l of
\* run r: the exception it raises ("" if none) and the locals it leaves;
\* attn_embedded keeps the embedded parameter of the calculate_attention call
DecBlockStep(l, r) ==
    LET dropped == Dropout(l.conv_input, "dec.dropout." \o r, l.i + 1)
        conved == DecConved(dropped, l.i)
        att == calculate_attention(AttnEmbedded(l, r), conved, e.conved, e.combined)
        out == Add(att.conved, dropped)
    IN  IF Len(conved.v) = 0
        THEN [err |-> "RuntimeError: dec conv", l |-> [l EXCEPT !.conv_input = dropped]]
        ELSE IF \/ ~AttnShapeOK(AttnEmbedded(l, r), conved, e.conved, e.combined)
                \/ ~SameShape(att.conved, dropped)
        THEN [err |-> "RuntimeError: dec shape",
              l |-> [l EXCEPT !.conv_input = dropped, !.conved = conved]]
        ELSE [err |-> "",
              l |-> [l EXCEPT !.attention = AttentionAssigned(l, att),
                              !.attn_embedded = AttnEmbedded(l, r), !.conved = out,
                              !.conv_input = out, !.i = l.i + 1]]

DecBlock ==
    /\ pc = "dec_blocks"
    /\ d["A"].i < dec.n_layers
    /\ d' = [r \in Runs |-> DecBlockStep(d[r], r).l]
    /\ LET raised == DecBlockStep(d["A"], "A").err IN
        IF raised # "" THEN Raise(raised) ELSE UNCHANGED <<pc, err>>
    /\ UNCHANGED <<enc, dec, training, calls, src, trg, e, ret, trainVars, fnVars>>

\* after the loop: hid2emb, dropout, fc_out, return
DecReturnStep(l, r) ==
    LET conved == Linear("dec.hid2emb", l.conved, EMB_DIM) IN
    [l EXCEPT !.conved = conved,
              !.output = Linear("dec.fc_out",
                                Dropout(conved, "dec.dropout." \o r, dec.n_layers + 1),
                                OUTPUT_DIM)]

DecReturn ==
    /\ pc = "dec_blocks"
    /\ d["A"].i = dec.n_layers
    /\ IF ~Assigned(d["A"])
       THEN Raise("UnboundLocalError: dec conved") /\ d' = d
       ELSE /\ d' = [r \in Runs |-> DecReturnStep(d[r], r)]
            /\ pc' = Seq2SeqAfterDecoder
            /\ err' = err
    /\ UNCHANGED <<enc, dec, training, calls, src, trg, e, ret, trainVars, fnVars>>

NextForward ==
    \/ EncoderInit
    \/ DecoderInit
    \/ Seq2SeqInit
    \/ Seq2SeqForward
    \/ Seq2SeqCallEncoder
    \/ EncEmbed
    \/ EncBlock
    \/ EncReturn
    \/ Seq2SeqCallDecoder
    \/ DecEmbed
    \/ DecBlock
    \/ DecReturn
    \/ Seq2SeqReturn

SpecForward == InitForward /\ [][NextForward]_vars

\* =========================================================== SpecTrain
\* losses are floats: a finite value, +infinity or NaN
Num(n) == [kind |-> "num", val |-> n]
Inf == [kind |-> "inf", val |-> 0]
NaN == [kind |-> "nan", val |-> 0]
LossVals == {Num(n) : n \in 0..MaxLoss} \cup {Inf, NaN}

\* a < b on floats: false as soon as one side is NaN
Lt(a, b) ==
    /\ a.kind = "num"
    /\ \/ b.kind = "inf"
       \/ b.kind = "num" /\ a.val < b.val

\* parameters no step of this run produced (a tut5-model.pt left by an earlier run)
StaleParams == -1

\* the statements of train(model, iterator, optimizer, criterion, clip)
TrainBodyClipFirst ==
    <<"model.train", "for", "zero_grad", "forward", "loss", "clip_grad_norm_",
      "backward", "step", "accumulate", "endfor", "return">>
TrainBody ==
    <<"model.train", "for", "zero_grad", "forward", "loss", "backward",
      "clip_grad_norm_", "step", "accumulate", "endfor", "return">>

\* the statements of evaluate(model, iterator, criterion), under torch.no_grad()
EvaluateBodyStepping ==
    <<"for", "forward", "loss", "step", "accumulate", "endfor", "return">>
EvaluateBody ==
    <<"for", "forward", "loss", "accumulate", "endfor", "return">>

\* the iterators of the calls: train(model, train_iterator, ...),
\* evaluate(model, train_iterator, criterion) in the loop,
\* evaluate(model, test_iterator, criterion) in the final cell
TrainIterator == "train_iterator"
LoopEvalIterator == "train_iterator"
TestIterator == "test_iterator"
ValidIterator == "valid_iterator"

\* the masks nn.Dropout may draw in one forward pass, and the logits of a pass
Masks == {"mask1", "mask2"}
Logits(p, batch, mask) ==
    [params |-> p, input |-> batch, dropout |-> IF training THEN mask ELSE "off"]

InFunction == pc \in {"train", "evaluate", "test_evaluate"}
Body == IF pc = "train" THEN TrainBody ELSE EvaluateBody
Cur == IF InFunction /\ ip.k \in 1..Len(Body) THEN Body[ip.k] ELSE ""
IndexOf(body, label) == CHOOSE k \in 1..Len(body) : body[k] = label
NextStmt == [ip EXCEPT !.k = ip.k + 1]
Enter == [k |-> 1, batch |-> 0]

\* variants of the test of the loop: save in every epoch; save only below a
\* best loss that is already a number
ShouldSaveAlways(v, best) == TRUE
ShouldSaveBelowNumber(v, best) == Lt(v, best) /\ best.kind = "num"
\* if valid_loss < best_valid_loss:
ShouldSave(v, best) == Lt(v, best)

InitTrain ==
    /\ FnIdle
    /\ enc = [status |-> "none", kernel_size |-> 0, n_layers |-> 0, padding |-> 0,
              max_length |-> 0]
    /\ dec = [status |-> "none", kernel_size |-> 0, n_layers |-> 0, trg_pad_idx |-> 0,
              max_length |-> 0]
    /\ calls = <<>>
    /\ src = <<>>
    /\ trg = [r \in Runs |-> <<>>]
    /\ e = NoEncLocals
    /\ d = [r \in Runs |-> NoDecLocals]
    /\ ret = [r \in Runs |-> NoRet]
    /\ training = TRUE
    /\ pc = "epoch_loop"
    /\ err = ""
    /\ n_epochs \in {0, N_EPOCHS}
    /\ epoch = 0
    /\ iterator = ""
    /\ ip = [k |-> 0, batch |-> 0]
    /\ loc = [output |-> {}, loss |-> {}]
    /\ params = 0
    /\ grads = [from |-> {}, clipped |-> FALSE]
    /\ optSteps = 0
    /\ ckpt \in {[exists |-> FALSE, params |-> 0], [exists |-> TRUE, params |-> StaleParams]}
    /\ best_valid_loss = Inf
    /\ valid_loss = NaN
    /\ hist = <<>>
    /\ loads = 0
    /\ validation = [loss |-> [kind |-> "nan", val |-> 0],
                     best |-> [kind |-> "inf", val |-> 0], params |-> 0]

\* for epoch in range(N_EPOCHS): train_loss = train(model, train_iterator, ...)
EpochLoop ==
    /\ pc = "epoch_loop"
    /\ IF epoch < n_epochs
       THEN pc' = "train" /\ iterator' = TrainIterator /\ ip' = Enter
       ELSE pc' = "load" /\ UNCHANGED <<iterator, ip>>
    /\ UNCHANGED <<training, err, epoch, params, grads, optSteps, ckpt,
                   best_valid_loss, valid_loss, hist, loads, validation, loc, n_epochs, fwdVars, fnVars>>

\* model.train()
ModelTrain ==
    /\ Cur = "model.train"
    /\ training' = TRUE
    /\ ip' = NextStmt
    /\ UNCHANGED <<pc, err, epoch, iterator, params, grads, optSteps, ckpt,
                   best_valid_loss, valid_loss, hist, loads, validation, loc, n_epochs, fwdVars, fnVars>>

\* for i, batch in enumerate(iterator):
ForBatch ==
    /\ Cur = "for"
    /\ ip' = IF ip.batch < NBatches
             THEN NextStmt
             ELSE [ip EXCEPT !.k = IndexOf(Body, "endfor") + 1]
    /\ UNCHANGED <<training, pc, err, epoch, iterator, params, grads, optSteps, ckpt,
                   best_valid_loss, valid_loss, hist, loads, validation, loc, n_epochs, fwdVars, fnVars>>

\* optimizer.zero_grad()
ZeroGrad ==
    /\ Cur = "zero_grad"
    /\ grads' = [from |-> {}, clipped |-> FALSE]
    /\ ip' = NextStmt
    /\ UNCHANGED <<training, pc, err, epoch, iterator, params, optSteps, ckpt,
                   best_valid_loss, valid_loss, hist, loads, validation, loc, n_epochs, fwdVars, fnVars>>

\* output, _ = model(src, trg[:,:-1]): the logits are a function of the
\* parameters, of the batch and, in training mode, of the dropout masks drawn
\* in this call
Forward ==
    /\ Cur = "forward"
    /\ \E m \in Masks :
        loc' = [loc EXCEPT !.output = {Logits(params, <<iterator, ip.batch>>, m)}]
    /\ ip' = NextStmt
    /\ UNCHANGED <<training, pc, err, epoch, iterator, params, grads, optSteps, ckpt,
                   best_valid_loss, valid_loss, hist, loads, validation, n_epochs, fwdVars, fnVars>>

\* loss = criterion(output, trg)
Loss ==
    /\ Cur = "loss"
    /\ loc' = [loc EXCEPT !.loss = {o.input[2] : o \in loc.output}]
    /\ ip' = NextStmt
    /\ UNCHANGED <<training, pc, err, epoch, iterator, params, grads, optSteps, ckpt,
                   best_valid_loss, valid_loss, hist, loads, validation, n_epochs, fwdVars, fnVars>>

\* loss.backward(): adds this batch's gradient to .grad; under torch.no_grad()
\* the loss has no graph and backward raises.  The gradient comes from the
\* batches the loss was computed from.
Backward ==
    /\ Cur = "backward"
    /\ IF pc = "train"
       THEN /\ grads' = [from |-> grads.from \cup loc.loss, clipped |-> FALSE]
            /\ ip' = NextStmt
            /\ UNCHANGED <<pc, err>>
       ELSE Raise("RuntimeError: no grad") /\ UNCHANGED <<grads, ip>>
    /\ UNCHANGED <<training, epoch, iterator, params, optSteps, ckpt,
                   best_valid_loss, valid_loss, hist, loads, validation, loc, n_epochs, fwdVars, fnVars>>

\* torch.nn.utils.clip_grad_norm_(model.parameters(), clip)
ClipGradNorm ==
    /\ Cur = "clip_grad_norm_"
    /\ grads' = [grads EXCEPT !.clipped = TRUE]
    /\ ip' = NextStmt
    /\ UNCHANGED <<training, pc, err, epoch, iterator, params, optSteps, ckpt,
                   best_valid_loss, valid_loss, hist, loads, validation, loc, n_epochs, fwdVars, fnVars>>

\* optimizer.step(): new parameters, one more Adam update
OptimizerStep ==
    /\ Cur = "step"
    /\ params' = optSteps + 1
    /\ optSteps' = optSteps + 1
    /\ ip' = NextStmt
    /\ UNCHANGED <<training, pc, err, epoch, iterator, grads, ckpt,
                   best_valid_loss, valid_loss, hist, loads, validation, loc, n_epochs, fwdVars, fnVars>>

\* epoch_loss += loss.item()
Accumulate ==
    /\ Cur = "accumulate"
    /\ ip' = NextStmt
    /\ UNCHANGED <<training, pc, err, epoch, iterator, params, grads, optSteps, ckpt,
                   best_valid_loss, valid_loss, hist, loads, validation, loc, n_epochs, fwdVars, fnVars>>

\* end of the loop body: next batch
EndFor ==
    /\ Cur = "endfor"
    /\ ip' = [k |-> IndexOf(Body, "for"), batch |-> ip.batch + 1]
    /\ UNCHANGED <<training, pc, err, epoch, iterator, params, grads, optSteps, ckpt,
                   best_valid_loss, valid_loss, hist, loads, validation, loc, n_epochs, fwdVars, fnVars>>

\* return epoch_loss / len(iterator): train's value is only printed; the loop
\* keeps evaluate's in valid_loss, the final cell in test_loss
Return ==
    /\ Cur = "return"
    /\ IF pc = "train"
       THEN /\ pc' = "evaluate"
            /\ iterator' = LoopEvalIterator
            /\ ip' = Enter
            /\ UNCHANGED <<valid_loss, validation>>
       ELSE IF pc = "evaluate"
       THEN /\ \E l \in LossVals, v \in LossVals :
                /\ valid_loss' = l
                /\ validation' = [validation EXCEPT !.loss =
                                      IF iterator = ValidIterator THEN l ELSE v]
            /\ pc' = "compare"
            /\ UNCHANGED <<iterator, ip>>
       ELSE /\ pc' = "done"
            /\ UNCHANGED <<iterator, ip, valid_loss, validation>>
    /\ loc' = [output |-> {}, loss |-> {}]
    /\ UNCHANGED <<training, err, epoch, params, grads, optSteps, ckpt,
                   best_valid_loss, hist, loads, n_epochs, fwdVars, fnVars>>

\* if valid_loss < best_valid_loss: best_valid_loss = valid_loss;
\*     torch.save(model.state_dict(), 'tut5-model.pt')
Compare ==
    /\ pc = "compare"
    /\ IF ShouldSave(valid_loss, best_valid_loss)
       THEN /\ best_valid_loss' = valid_loss
            /\ ckpt' = [exists |-> TRUE, params |-> params]
       ELSE UNCHANGED <<best_valid_loss, ckpt>>
    /\ hist' = Append(hist, [loss |-> valid_loss, params |-> params,
                             saved |-> ShouldSave(valid_loss, best_valid_loss),
                             best |-> best_valid_loss'])
    /\ validation' = IF Lt(validation.loss, validation.best)
                     THEN [validation EXCEPT !.best = validation.loss,
                                             !.params = params]
                     ELSE validation
    /\ epoch' = epoch + 1
    /\ pc' = "epoch_loop"
    /\ UNCHANGED <<training, err, iterator, ip, params, grads, optSteps,
                   valid_loss, loads, loc, n_epochs, fwdVars, fnVars>>

\* model.load_state_dict(torch.load('tut5-model.pt'));
\* test_loss = evaluate(model, test_iterator, criterion)
Load ==
    /\ pc = "load"
    /\ IF ckpt.exists
       THEN /\ params' = ckpt.params
            /\ loads' = loads + 1
            /\ pc' = "test_evaluate"
            /\ iterator' = TestIterator
            /\ ip' = Enter
            /\ err' = err
       ELSE /\ Raise("FileNotFoundError")
            /\ UNCHANGED <<params, loads, iterator, ip>>
    /\ UNCHANGED <<training, epoch, grads, optSteps, ckpt,
                   best_valid_loss, valid_loss, hist, validation, loc, n_epochs, fwdVars, fnVars>>

NextTrain ==
    \/ EpochLoop
    \/ ModelTrain
    \/ ForBatch
    \/ ZeroGrad
    \/ Forward
    \/ Loss
    \/ Backward
    \/ ClipGradNorm
    \/ OptimizerStep
    \/ Accumulate
    \/ EndFor
    \/ Return
    \/ Compare
    \/ Load

SpecTrain == InitTrain /\ [][NextTrain]_vars

\* ================================================== properties, SpecForward
EncErrors == {"RuntimeError: enc conv", "RuntimeError: enc shape"}
DecErrors == {"RuntimeError: dec conv", "RuntimeError: dec shape"}
EncoderReturned == pc = "s2s_decoder" \/ Len(calls) = 2
AgreeUpTo(i) == \A p \in 1..i : trg["A"][p] = trg["B"][p]

\* C1: with dropout off, the logits and the attention row that Decoder.forward
\* returns at target position i are the same for two targets that agree on
\* positions 0..i, for every kernel size and every number of blocks >= 1.
C1_DecoderCausal ==
    (pc = "done" /\ ~training) =>
        \A i \in 1..Len(trg["A"]) :
            AgreeUpTo(i) =>
                /\ ret["A"].output.v[i] = ret["B"].output.v[i]
                /\ ret["A"].attention[i] = ret["B"].attention[i]

\* two targets that differ only after position 0, two blocks of kernel 3: the
\* outputs agree at position 0 and differ at position 1
C1_Witness ==
    /\ pc = "done" /\ ~training
    /\ dec.kernel_size = 3 /\ dec.n_layers = 2
    /\ Len(trg["A"]) = 2 /\ AgreeUpTo(1) /\ trg["A"][2] # trg["B"][2]
    /\ ret["A"].output.v[1] = ret["B"].output.v[1]
    /\ ret["A"].output.v[2] # ret["B"].output.v[2]

\* C2: in an encoder with an odd kernel and at least one block, every
\* convolutional block raises nothing and outputs exactly Len(src) positions,
\* and so do the conved and combined it returns.
C2_EncoderKeepsLength ==
    (enc.status = "built" /\ enc.kernel_size % 2 = 1 /\ enc.n_layers >= 1) =>
        /\ err \notin EncErrors
        /\ e.i >= 1 => Len(e.conved.v) = Len(src) /\ Len(e.conv_input.v) = Len(src)
        /\ EncoderReturned =>
            /\ Len(e.conved.v) = Len(src) /\ e.conved.dim = EMB_DIM
            /\ Len(e.combined.v) = Len(src) /\ e.combined.dim = EMB_DIM

C2_Witness ==
    /\ pc = "s2s_decoder"
    /\ enc.kernel_size = 3 /\ enc.n_layers = 2 /\ e.i = 2
    /\ Len(src) = 2 /\ Len(e.conved.v) = 2 /\ Len(e.combined.v) = 2

\* C3: an Encoder is built iff its kernel size is odd; with an even kernel the
\* construction raises AssertionError and nothing runs after it (no decoder, no
\* forward pass).  A Decoder is built whatever its kernel size, and with an
\* even kernel its forward pass raises no convolution or shape error.
C3_KernelValidation ==
    /\ enc.status # "none" => (enc.status = "built" <=> enc.kernel_size % 2 = 1)
    /\ enc.status = "failed" =>
        /\ pc = "error" /\ err = "AssertionError"
        /\ dec.status = "none" /\ calls = <<>> /\ e = NoEncLocals
    /\ (enc.status = "built" /\ pc # "new_decoder") => dec.status = "built"
    /\ (dec.status = "built" /\ dec.kernel_size % 2 = 0 /\ dec.n_layers >= 1) =>
        err \notin DecErrors

C3_Witness ==
    /\ enc.status = "failed" /\ enc.kernel_size = 2
    /\ pc = "error" /\ err = "AssertionError"

\* C4: Seq2Seq.forward invokes the encoder once and then the decoder once; the
\* decoder starts only after the encoder has returned both outputs, and its one
\* pass yields a logit for every position of the target it was given.
C4_EncoderThenDecoderOnce ==
    /\ calls \in {<<>>, <<"encoder">>, <<"encoder", "decoder">>}
    /\ Len(calls) = 2 =>
        Len(e.conved.v) = Len(src) /\ Len(e.combined.v) = Len(src)
    /\ pc \in {"enc_embed", "enc_blocks", "s2s_decoder"} => calls = <<"encoder">>
    /\ pc \in {"dec_embed", "dec_blocks", "s2s_return", "done"} =>
        calls = <<"encoder", "decoder">>
    /\ pc = "done" => Len(ret["A"].output.v) = Len(trg["A"])

C4_Witness ==
    /\ pc = "done" /\ calls = <<"encoder", "decoder">>
    /\ Len(trg["A"]) = 2 /\ dec.n_layers = 2

\* C5: for every decoder kernel size (odd or even) and at least one block the
\* decoder raises no convolution or shape error, and the logits returned have
\* as many positions as the target fed in (the original target less its last
\* token), the attention as many rows, each with Len(src) columns.
C5_OutputShape ==
    /\ (dec.status = "built" /\ dec.n_layers >= 1) => err \notin DecErrors
    /\ pc = "done" =>
        \A r \in Runs :
            /\ Len(ret[r].output.v) = Len(trg[r])
            /\ ret[r].output.dim = OUTPUT_DIM
            /\ Len(ret[r].attention) = Len(trg[r])
            /\ \A j \in 1..Len(ret[r].attention) : Len(ret[r].attention[j]) = Len(src)

C5_Witness ==
    /\ pc = "done" /\ dec.kernel_size = 2
    /\ Len(src) = 2 /\ Len(trg["A"]) = 1
    /\ Len(ret["A"].output.v) = 1
    /\ Len(ret["A"].attention) = 1 /\ Len(ret["A"].attention[1]) = 2

\* ==================================================== properties, SpecTrain
AfterLoad == pc \in {"test_evaluate", "done"}

\* C6: in every epoch the checkpoint file is written iff that epoch's loss over
\* the validation data is strictly lower than the lowest validation loss of all
\* earlier epochs; otherwise the file is left unchanged.
C6_CheckpointRule ==
    [][pc = "compare" =>
        IF Lt(validation.loss, validation.best)
        THEN ckpt' = [exists |-> TRUE, params |-> params]
        ELSE ckpt' = ckpt]_vars

\* C7: after the last epoch the checkpoint is read back exactly once, before
\* the final evaluation, which runs with the parameters of the earliest epoch
\* with the lowest validation loss (here: whenever some epoch's validation
\* loss was finite).
C7_BestRestored ==
    (epoch = n_epochs /\ pc \notin {"epoch_loop", "load"}
        /\ validation.best.kind = "num") =>
            /\ AfterLoad
            /\ loads = 1
            /\ params = validation.params

\* C8: the loss that decides checkpointing is computed by evaluate() over
\* valid_iterator, not over the iterator train() consumed.
C8_LossFromValidationData ==
    pc = "evaluate" => iterator = ValidIterator /\ iterator # TrainIterator

\* C9: every forward pass of evaluate(), in the loop and in the final cell,
\* runs with the model in evaluation mode (dropout off).
C9_EvaluateInEvalMode ==
    (pc \in {"evaluate", "test_evaluate"} /\ Cur = "forward") => ~training

\* C10: no step of evaluate() changes the parameters, the optimizer state or
\* the checkpoint file; the parameters change only in optimizer.step() of
\* train() and in the final load.
C10_EvaluateFrame ==
    [][/\ pc \in {"evaluate", "test_evaluate"} =>
            UNCHANGED <<params, optSteps, ckpt>>
       /\ params' # params => (pc = "train" /\ Cur = "step") \/ pc = "load"]_vars

\* evaluate() has returned in the second epoch: the parameters and the
\* optimizer state are those train() left
C10_Witness ==
    /\ pc = "compare" /\ epoch = 1
    /\ params = 2 * NBatches /\ optSteps = 2 * NBatches

\* C11: in train() each batch goes through zero_grad, forward, loss, backward,
\* clip_grad_norm_, step in this order before the next batch starts: backward
\* finds zeroed gradients and the output and loss of this batch, the clipping
\* finds this batch's unclipped gradient, the update finds the gradient of
\* exactly this batch, clipped; the updates made equal the batches processed.
C11_BatchSequencing ==
    pc = "train" =>
        /\ Cur = "loss" => {o.input : o \in loc.output} = {<<iterator, ip.batch>>}
        /\ Cur = "backward" =>
                /\ grads.from = {}
                /\ {o.input : o \in loc.output} = {<<iterator, ip.batch>>}
                /\ loc.loss = {ip.batch}
        /\ Cur = "clip_grad_norm_" => grads = [from |-> {ip.batch}, clipped |-> FALSE]
        /\ Cur = "step" => grads = [from |-> {ip.batch}, clipped |-> TRUE]
        /\ ip.batch \in 0..NBatches
        /\ optSteps = epoch * NBatches + ip.batch
                        + (IF Cur \in {"accumulate", "endfor"} THEN 1 ELSE 0)
        /\ params = optSteps

\* the update of the second batch of the second epoch is about to be made
C11_Witness ==
    /\ pc = "train" /\ Cur = "step"
    /\ epoch = 1 /\ ip.batch = 1
    /\ grads = [from |-> {1}, clipped |-> TRUE]
    /\ optSteps = NBatches + 1

\* ======================================= further properties, SpecForward
\* the position indices a tensor was computed from
PosIndices(x) == {a[2] : a \in {b \in UNION {x.v[j] : j \in 1..Len(x.v)} : b[1] = "pos"}}

\* C12: every position index Encoder.forward and Decoder.forward look up is in
\* 0..max_length-1; a source or target longer than max_length makes the
\* forward pass raise IndexError at the lookup, before any embedding exists,
\* and nothing is returned.
C12_PositionBound ==
    /\ PosIndices(e.embedded) \subseteq 0..(enc.max_length - 1)
    /\ \A r \in Runs : PosIndices(d[r].embedded) \subseteq 0..(dec.max_length - 1)
    /\ (Len(src) > enc.max_length /\ pc \notin {"s2s_encoder", "enc_embed"}) =>
        /\ pc = "error" /\ err = "IndexError: enc pos_embedding"
        /\ e = NoEncLocals /\ ret = [r \in Runs |-> NoRet]
    /\ (Len(trg["A"]) > dec.max_length /\ Len(calls) = 2 /\ pc # "dec_embed") =>
        /\ pc = "error" /\ err = "IndexError: dec pos_embedding"
        /\ d = [r \in Runs |-> NoDecLocals] /\ ret = [r \in Runs |-> NoRet]

\* a target of two tokens has been rejected by a decoder with one position
C12_Witness ==
    /\ pc = "error" /\ err = "IndexError: dec pos_embedding"
    /\ Len(trg["A"]) = 2 /\ dec.max_length = 1
    /\ Len(e.combined.v) = Len(src)

\* C16 as stated: in every decoder block the embedding passed to
\* calculate_attention is the token+position sum before dropout, also in
\* training mode.
C16_DropoutLessEmbedding ==
    \A r \in Runs : d[r].i >= 1 => d[r].attn_embedded = DecTokPos(trg[r])

\* C16 as amended: in every decoder block the embedding passed to
\* calculate_attention is the local embedded, the token+position sum after
\* dropout: in training mode every entry carries the mask drawn for it at the
\* embedding, in evaluation mode it is the sum itself.
C16_AttentionEmbedding ==
    \A r \in Runs : d[r].i >= 1 =>
        /\ d[r].attn_embedded = d[r].embedded
        /\ d[r].attn_embedded.dim = EMB_DIM
        /\ Len(d[r].attn_embedded.v) = Len(trg[r])
        /\ \A j \in 1..Len(trg[r]) :
            d[r].attn_embedded.v[j] =
                DecTokPos(trg[r]).v[j]
                    \cup (IF training THEN {Atom("dec.dropout." \o r, 0, j - 1)} ELSE {})

\* a training-mode pass through two blocks: the embedding the attention used
\* is not the token+position sum
C16_Witness ==
    /\ pc = "done" /\ training /\ d["A"].i = 2
    /\ d["A"].attn_embedded # DecTokPos(trg["A"])
    /\ d["A"].attn_embedded = d["A"].embedded

\* C18: with at least one block, every entry of the attention matrix that
\* Decoder.forward returns was computed from the convolution of the last
\* block (and, in training mode, from the dropout mask of the last block):
\* it is the attention of the last block, not that of an earlier one.
C18_FinalBlockAttention ==
    (pc \in {"s2s_return", "done"} /\ dec.n_layers >= 1) =>
        \A r \in Runs :
            /\ Len(d[r].attention) = Len(trg[r])
            /\ \A j \in 1..Len(d[r].attention) : \A s \in 1..Len(d[r].attention[j]) :
                /\ Atom("dec.convs", dec.n_layers - 1, 0) \in d[r].attention[j][s]
                /\ training =>
                    Atom("dec.dropout." \o r, dec.n_layers, j - 1) \in d[r].attention[j][s]
            /\ pc = "done" => ret[r].attention = d[r].attention

\* a decoder of two blocks has returned
C18_Witness ==
    /\ pc = "done" /\ dec.n_layers = 2
    /\ Atom("dec.convs", 1, 0) \in ret["A"].attention[1][1]

\* C21: Encoder.forward and Decoder.forward return only when n_layers >= 1.
\* With n_layers = 0 the loop body never runs, conved (and attention in the
\* decoder) stay unassigned, and the forward pass ends in an error at the first
\* read of conved after the loop (unless the position lookup before the loop
\* has already failed); nothing is returned.
C21_ZeroBlocks ==
    /\ (EncoderReturned \/ e.combined # NoTensor) => enc.n_layers >= 1
    /\ (pc \in {"s2s_return", "done"} \/ \E r \in Runs : d[r].output # NoTensor) =>
            dec.n_layers >= 1
    /\ (enc.n_layers = 0 /\ Len(calls) = 1 /\ pc \notin {"enc_embed", "enc_blocks"}) =>
            /\ pc = "error"
            /\ err \in {"UnboundLocalError: enc conved", "IndexError: enc pos_embedding"}
            /\ e.i = 0 /\ e.conved = NoTensor /\ e.combined = NoTensor
    /\ (dec.n_layers = 0 /\ Len(calls) = 2 /\ pc \notin {"dec_embed", "dec_blocks"}) =>
            /\ pc = "error"
            /\ err \in {"UnboundLocalError: dec conved", "IndexError: dec pos_embedding"}
            /\ \A r \in Runs :
                    /\ d[r].i = 0 /\ d[r].conved = NoTensor /\ d[r].attention = <<>>
                    /\ d[r].output = NoTensor
                    /\ ret[r] = NoRet
    /\ err = "UnboundLocalError: enc conved" => enc.n_layers = 0 /\ Len(calls) = 1
    /\ err = "UnboundLocalError: dec conved" => dec.n_layers = 0 /\ Len(calls) = 2

\* an encoder of two blocks has returned for a source of two tokens, and the
\* decoder without blocks has failed for a target of two tokens, after its
\* embedding was projected
C21_Witness ==
    /\ pc = "error" /\ err = "UnboundLocalError: dec conved"
    /\ enc.n_layers = 2 /\ dec.n_layers = 0
    /\ Len(src) = 2 /\ Len(trg["A"]) = 2
    /\ e.combined # NoTensor
    /\ d["A"].conv_input # NoTensor

\* ======================================================== SpecAttention
\* F.softmax on numbers.  Numbers are exact fractions of integers; exp is
\* taken to the base 2 (positive and increasing like e^x, and integer on the
\* energies 0..MaxEnergy; softmax does not change when a constant is added to
\* all energies, so energies from 0 lose nothing).
Exp(x) == 2 ^ x
Frac(n, dn) == [num |-> n, den |-> dn]
FracAdd(x, y) == Frac(x.num * y.den + y.num * x.den, x.den * y.den)
RECURSIVE FracSum(_)
FracSum(row) ==
    IF Len(row) = 0 THEN Frac(0, 1) ELSE FracAdd(row[1], FracSum(Tail(row)))
RECURSIVE IntSum(_)
IntSum(row) == IF Len(row) = 0 THEN 0 ELSE row[1] + IntSum(Tail(row))

\* F.softmax(energy, dim) of energy = [batch, trg len, src len] for one batch
\* element: dim = 2 divides by the sum over the source axis, dim = 1 by the
\* sum over the target axis
F_softmax(energy, dim) ==
    [j \in 1..Len(energy) |->
        [s \in 1..Len(energy[j]) |->
            Frac(Exp(energy[j][s]),
                 IF dim = 2
                 THEN IntSum([s2 \in 1..Len(energy[j]) |-> Exp(energy[j][s2])])
                 ELSE IntSum([j2 \in 1..Len(energy) |-> Exp(energy[j2][s])]))]]

\* attention = F.softmax(energy, dim=2)
AttnSoftmaxOverTarget(energy) == F_softmax(energy, 1)
AttnSoftmax(energy) == F_softmax(energy, 2)

\* energy = torch.matmul(combined, encoder_conved.permute(0, 2, 1)): any
\* (trg len) x (src len) matrix
InitAttention ==
    /\ TrainIdle
    /\ enc = [status |-> "none", kernel_size |-> 0, n_layers |-> 0, padding |-> 0,
              max_length |-> 0]
    /\ dec = [status |-> "none", kernel_size |-> 0, n_layers |-> 0, trg_pad_idx |-> 0,
              max_length |-> 0]
    /\ training \in BOOLEAN
    /\ err = ""
    /\ calls = <<>>
    /\ src = <<>>
    /\ trg = [r \in Runs |-> <<>>]
    /\ e = NoEncLocals
    /\ d = [r \in Runs |-> NoDecLocals]
    /\ ret = [r \in Runs |-> NoRet]
    /\ it = NoIteration
    /\ pc = "energy"
    /\ \E t \in 1..MaxTrgLen, s \in 1..MaxSrcLen :
        \E m \in [1..t -> [1..s -> 0..MaxEnergy]] :
            sm = [energy |-> m, attention |-> <<>>]

AttentionSoftmax ==
    /\ pc = "energy"
    /\ sm' = [sm EXCEPT !.attention = AttnSoftmax(sm.energy)]
    /\ pc' = "attention"
    /\ UNCHANGED <<enc, dec, training, err, calls, src, trg, e, d, ret, trainVars, it>>

NextAttention == AttentionSoftmax

SpecAttention == InitAttention /\ [][NextAttention]_vars

\* C13: every row of the attention matrix (one target position, all source
\* positions) consists of non-negative weights that sum to 1, and has one
\* weight per source position.
C13_AttentionIsDistribution ==
    pc = "attention" =>
        /\ Len(sm.attention) = Len(sm.energy)
        /\ \A j \in 1..Len(sm.attention) :
            /\ Len(sm.attention[j]) = Len(sm.energy[j])
            /\ \A s \in 1..Len(sm.attention[j]) :
                sm.attention[j][s].num >= 0 /\ sm.attention[j][s].den > 0
            /\ FracSum(sm.attention[j]).num = FracSum(sm.attention[j]).den

\* two target positions, one source position, different energies: both
\* weights are 1
C13_Witness ==
    /\ pc = "attention"
    /\ Len(sm.energy) = 2 /\ Len(sm.energy[1]) = 1
    /\ sm.energy[1][1] # sm.energy[2][1]
    /\ sm.attention[1][1].num = sm.attention[1][1].den
    /\ sm.attention[2][1].num = sm.attention[2][1].den

\* ======================================= further properties, SpecTrain
\* C14: the parameters the final load restores are the parameters that were
\* saved, and the logits the model then produces for an input are the logits
\* it produces for that input with the saved parameters, in whatever forward
\* pass.
C14_RoundTrip ==
    AfterLoad =>
        /\ params = ckpt.params
        /\ \A o \in loc.output : \A m \in Masks : o = Logits(ckpt.params, o.input, m)

\* ------------------------------------------ the running minimum of the loop
\* best_valid_loss before epoch k (epochs counted from 1)
BestBefore(k) == IF k = 1 THEN Inf ELSE hist[k - 1].best
\* the epochs up to k whose loss was below +infinity
BelowInf(k) == {j \in 1..k : Lt(hist[j].loss, Inf)}
MinLoss(k) ==
    IF BelowInf(k) = {} THEN Inf
    ELSE hist[CHOOSE j \in BelowInf(k) :
                  \A i \in BelowInf(k) : ~Lt(hist[i].loss, hist[j].loss)].loss
\* the epochs in which best_valid_loss changed
Changed == {k \in 1..Len(hist) : hist[k].best # BestBefore(k)}
LastChanged == CHOOSE k \in Changed : \A j \in Changed : j <= k

\* C19: after every epoch best_valid_loss is the minimum of the losses
\* evaluate() returned so far that were below +infinity (+infinity if there
\* was none); it never increases from one epoch to the next; and once the loop
\* has written the checkpoint, the file holds the parameters of the epoch in
\* which best_valid_loss last changed.
C19_RunningMinimum ==
    /\ Len(hist) = epoch
    /\ best_valid_loss = BestBefore(Len(hist) + 1)
    /\ \A k \in 1..Len(hist) :
            /\ hist[k].best = MinLoss(k)
            /\ hist[k].best = BestBefore(k) \/ Lt(hist[k].best, BestBefore(k))
            /\ hist[k].saved <=> k \in Changed
    /\ Changed # {} => ckpt = [exists |-> TRUE, params |-> hist[LastChanged].params]

\* three epochs are over: the first improved, the second returned NaN, the
\* third improved again
C19_Witness ==
    /\ pc = "epoch_loop"
    /\ Len(hist) = 3
    /\ hist[1].loss = Num(2) /\ hist[2].loss = NaN /\ hist[3].loss = Num(1)
    /\ best_valid_loss = Num(1)
    /\ ckpt.params = hist[3].params

\* ------------------------------------------------ the checkpoint at the load
\* the loop is over and the statement of the final load has run
LoadDone == epoch = n_epochs /\ pc \notin {"epoch_loop", "load"}
FirstBelowInf == CHOOSE k \in BelowInf(Len(hist)) : \A j \in BelowInf(Len(hist)) : k <= j
\* the file is not one this loop wrote: absent, or left by an earlier run
NotOfLoop == ckpt \in {[exists |-> FALSE, params |-> 0],
                       [exists |-> TRUE, params |-> StaleParams]}

\* some epoch's loss was below +infinity: the first such epoch wrote the
\* checkpoint, the file is there from then on and the final load reads it
CheckpointAvailable ==
    BelowInf(Len(hist)) # {} =>
        /\ hist[FirstBelowInf].saved
        /\ hist[FirstBelowInf].best = hist[FirstBelowInf].loss
        /\ \A k \in 1..(FirstBelowInf - 1) : ~hist[k].saved
        /\ ckpt.exists
        /\ \E k \in FirstBelowInf..Len(hist) : ckpt.params = hist[k].params
        /\ LoadDone => (AfterLoad /\ loads = 1 /\ err = "")

\* C20 as stated: with a loss below +infinity the checkpoint is written (by
\* the first such epoch) before the final load; with none (zero epochs, or
\* only infinite and NaN losses) nothing is written and the final load reads
\* a file the loop did not produce.
C20_LoadReadsForeignFile ==
    /\ CheckpointAvailable
    /\ BelowInf(Len(hist)) = {} =>
            /\ \A k \in 1..Len(hist) : ~hist[k].saved
            /\ NotOfLoop
            /\ LoadDone => (AfterLoad /\ loads = 1 /\ ckpt.exists)

\* C20: with a loss below +infinity the checkpoint is written (by the first
\* such epoch) before the final load; with none, nothing is written, and the
\* final load reads the file an earlier run left if there is one and raises
\* FileNotFoundError if there is none.
C20_CheckpointAtLoad ==
    /\ CheckpointAvailable
    /\ BelowInf(Len(hist)) = {} =>
            /\ \A k \in 1..Len(hist) : ~hist[k].saved
            /\ NotOfLoop
            /\ LoadDone =>
                    IF ckpt.exists
                    THEN AfterLoad /\ loads = 1 /\ params = StaleParams
                    ELSE pc = "error" /\ err = "FileNotFoundError" /\ loads = 0

\* three epochs returned an infinite, a NaN and an infinite loss, nothing was
\* written, no earlier run left a file, and the final load has raised
C20_Witness ==
    /\ LoadDone
    /\ Len(hist) = 3
    /\ hist[1].loss = Inf /\ hist[2].loss = NaN /\ hist[3].loss = Inf
    /\ \A k \in 1..3 : ~hist[k].saved
    /\ ~ckpt.exists
    /\ err = "FileNotFoundError"

\* ============================================================ SpecBatch
\* One iteration of "for i, batch in enumerate(iterator)" of train() and of
\* evaluate(), from batch.trg to the loss.  A token of the batch is the
\* record [pos, tok]: its index in the vocabulary, tagged with the position
\* it has in its row of batch.trg; a logit vector is [seq, pos]: the row and
\* the position of the fed target it was computed for.

\* the rows a Field with init_token, eos_token and batch_first yields when
\* padded to length len: <sos>, words, <eos>, then <pad>
Pads(n) == [j \in 1..n |-> TRG_PAD_IDX]
Rows(len) ==
    UNION {{<<SOS_IDX>> \o w \o <<EOS_IDX>> \o Pads(len - 2 - n) :
                w \in [1..n -> {UNK_IDX, WORD_IDX}]} : n \in 0..(len - 2)}
\* a batch is padded to its longest row
Batches(len, size) == {m \in [1..size -> Rows(len)] : \E i \in 1..size : m[i][len] = EOS_IDX}
Tagged(m) == [i \in 1..Len(m) |-> [j \in 1..Len(m[i]) |-> [pos |-> j, tok |-> m[i][j]]]]

\* x.contiguous().view(-1, ...): the rows one after the other
RECURSIVE Flatten(_)
Flatten(m) == IF Len(m) = 0 THEN <<>> ELSE m[1] \o Flatten(Tail(m))

\* trg[:,:-1], the target fed to the model
FedSlice(row) == SubSeq(row, 1, Len(row) - 1)

\* trg[:,1:], the tokens the outputs are compared with
ExpectedSliceFront(row) == SubSeq(row, 1, Len(row) - 1)
ExpectedSlice(row) == SubSeq(row, 2, Len(row))

\* nn.CrossEntropyLoss(ignore_index): the mean, over the positions whose
\* target is not ignore_index, of the negative log-likelihood the logits of
\* the position give its target; terms are the (logits, target) pairs that
\* enter the sum, n their number (0: the mean is 0/0, nan)
CrossEntropyLoss(output, target, ignore_index) ==
    LET kept == {n \in 1..Len(target) : target[n].tok # ignore_index}
    IN  [terms |-> {<<output[n], target[n]>> : n \in kept}, n |-> Cardinality(kept)]

\* criterion = nn.CrossEntropyLoss(ignore_index = TRG_PAD_IDX)
CriterionNoIgnore(output, target) == CrossEntropyLoss(output, target, -100)
Criterion(output, target) == CrossEntropyLoss(output, target, TRG_PAD_IDX)

\* src = batch.src; trg = batch.trg
InitBatch ==
    /\ TrainIdle
    /\ enc = [status |-> "none", kernel_size |-> 0, n_layers |-> 0, padding |-> 0,
              max_length |-> 0]
    /\ dec = [status |-> "none", kernel_size |-> 0, n_layers |-> 0, trg_pad_idx |-> 0,
              max_length |-> 0]
    /\ training = TRUE
    /\ err = ""
    /\ calls = <<>>
    /\ src = <<>>
    /\ trg = [r \in Runs |-> <<>>]
    /\ e = NoEncLocals
    /\ d = [r \in Runs |-> NoDecLocals]
    /\ ret = [r \in Runs |-> NoRet]
    /\ sm = [energy |-> <<>>, attention |-> <<>>]
    /\ pc = "batch"
    /\ \E fn \in {"train", "evaluate"}, len \in 2..(MaxTrgLen + 1), size \in 1..MaxBatch :
        \E m \in Batches(len, size) :
            it = [NoIteration EXCEPT !.fn = fn, !.trg = Tagged(m)]

\* output, _ = model(src, trg[:,:-1]): one logit vector per row and position
\* of the target fed in
BatchForward ==
    /\ pc = "batch"
    /\ LET fed == [i \in 1..Len(it.trg) |-> FedSlice(it.trg[i])] IN
        it' = [it EXCEPT
                !.fed = fed,
                !.output = [i \in 1..Len(fed) |->
                               [j \in 1..Len(fed[i]) |-> [seq |-> i, pos |-> j]]]]
    /\ pc' = "view"
    /\ UNCHANGED <<enc, dec, training, err, calls, src, trg, e, d, ret, trainVars, sm>>

\* output = output.contiguous().view(-1, output_dim)
BatchView ==
    /\ pc = "view"
    /\ it' = [it EXCEPT !.output = Flatten(it.output)]
    /\ pc' = "expected"
    /\ UNCHANGED <<enc, dec, training, err, calls, src, trg, e, d, ret, trainVars, sm>>

\* trg = trg[:,1:].contiguous().view(-1)
BatchExpected ==
    /\ pc = "expected"
    /\ it' = [it EXCEPT !.expected =
                Flatten([i \in 1..Len(it.trg) |-> ExpectedSlice(it.trg[i])])]
    /\ pc' = "criterion"
    /\ UNCHANGED <<enc, dec, training, err, calls, src, trg, e, d, ret, trainVars, sm>>

\* loss = criterion(output, trg): raises unless there is one target per
\* logit vector
BatchLoss ==
    /\ pc = "criterion"
    /\ IF Len(it.output) = Len(it.expected)
       THEN /\ it' = [it EXCEPT !.loss = Criterion(it.output, it.expected)]
            /\ pc' = "loss"
            /\ err' = err
       ELSE Raise("ValueError: batch_size") /\ it' = it
    /\ UNCHANGED <<enc, dec, training, calls, src, trg, e, d, ret, trainVars, sm>>

NextBatch ==
    \/ BatchForward
    \/ BatchView
    \/ BatchExpected
    \/ BatchLoss

SpecBatch == InitBatch /\ [][NextBatch]_vars

\* the positions of the flattened target whose token is the pad token
PadPositions == {n \in 1..Len(it.expected) : it.expected[n].tok = TRG_PAD_IDX}

\* C15: in train() and evaluate() no term of the batch loss involves the
\* logits of a position whose expected token is the pad index; every other
\* position contributes exactly one term, and the mean is over those alone.
C15_PadIgnored ==
    pc = "loss" =>
        /\ \A n \in PadPositions : \A t \in it.loss.terms : t[1] # it.output[n]
        /\ \A n \in (1..Len(it.expected)) \ PadPositions :
                <<it.output[n], it.expected[n]>> \in it.loss.terms
        /\ it.loss.n = Len(it.expected) - Cardinality(PadPositions)
        /\ Cardinality(it.loss.terms) = it.loss.n

\* the loss of a batch of two rows, one of them padded
C15_Witness ==
    /\ pc = "loss" /\ Len(it.trg) = 2
    /\ PadPositions # {}
    /\ it.loss.n >= 2 /\ it.loss.n < Len(it.expected)

\* C17: the model is fed every row of batch.trg without its last token; there
\* are as many logit vectors as expected tokens, T-1 per row of length T; the
\* logits for position i of a row are compared with the token at position
\* i+1 of that row of batch.trg, and the first token of a row is never an
\* expected token.
C17_TargetAlignment ==
    /\ err = ""
    /\ pc \in {"view", "expected", "criterion", "loss"} =>
        \A i \in 1..Len(it.trg) :
            /\ Len(it.fed[i]) = Len(it.trg[i]) - 1
            /\ \A j \in 1..Len(it.fed[i]) : it.fed[i][j] = it.trg[i][j]
    /\ pc \in {"criterion", "loss"} =>
        /\ Len(it.output) = Len(it.trg) * (Len(it.trg[1]) - 1)
        /\ Len(it.expected) = Len(it.output)
        /\ \A n \in 1..Len(it.output) :
            /\ it.expected[n] = it.trg[it.output[n].seq][it.output[n].pos + 1]
            /\ it.expected[n].pos # 1
    /\ pc = "loss" =>
        \A t \in it.loss.terms : t[2] = it.trg[t[1].seq][t[1].pos + 1]

\* the loss of a batch of two rows of three tokens
C17_Witness ==
    /\ pc = "loss" /\ it.fn = "evaluate"
    /\ Len(it.trg) = 2 /\ Len(it.trg[1]) = 3
    /\ Len(it.output) = 4 /\ Len(it.expected) = 4
    /\ it.expected[3] = it.trg[2][2]

====
